---- MODULE Spec2Model ----
(***************************************************************************)
(* Profile reconciliation of logger.js: the flows signUpAndCreateProfile,  *)
(* signIn, the onAuthStateChange handler of initAuthListener and the       *)
(* direct store helpers, run as concurrent async calls against one         *)
(* 'profiles' table.  Every await on the store is a step boundary, so the  *)
(* calls interleave at every store round trip.                             *)
(***************************************************************************)
EXTENDS Naturals, Sequences, FiniteSets

\* Number of calls (flows) started in one behaviour; call k is task k.
MaxCalls == 2

Tasks == 1..MaxCalls

\* JS null / undefined.
NULL == "null"

Ids == {"u1", "u2"}
\* E-mails a caller can supply.
Emails == {"a@x.com", "A@x.com"}

\* Identities the provider can hand out (signUp / signIn result, session.user).
NoUser == [id |-> NULL, email |-> NULL]
Identities == {[id |-> "u1", email |-> "A@x.com"], [id |-> "u2", email |-> "b@x.com"]}

\* Registration fields a caller can supply (nome, data_nascimento).
FieldChoices ==
    {[nome |-> NULL, data_nascimento |-> NULL],
     [nome |-> "Ana", data_nascimento |-> "2000-01-01"]}

\* Outcomes of supabase.auth.signUp / signInWithPassword: { data, error }.
AuthResponses ==
    {[error |-> TRUE, user |-> NoUser]}
        \cup {[error |-> FALSE, user |-> u] : u \in Identities \cup {NoUser}}

\* Payloads of onAuthStateChange: session null, session without user, session with user.
NoSession == [present |-> FALSE, user |-> NoUser]
Sessions ==
    {NoSession} \cup {[present |-> TRUE, user |-> u] : u \in Identities \cup {NoUser}}

\* A row of 'profiles'; NoRow is the null data of a select that found nothing.
NoRow == [id |-> NULL, email |-> NULL, nome |-> NULL, data_nascimento |-> NULL, role |-> NULL]

\* An entry of the Pending-Registration Cache; NoPending is a missing key.
NoPending == [email |-> NULL, nome |-> NULL, data_nascimento |-> NULL]

VARIABLES
    store,       \* the rows of the 'profiles' table, in insertion order
    pending,     \* Pending-Registration Cache: lower-cased email -> record
    subscribed,  \* the onAuthStateChange handler is registered
    tasks        \* the async calls: position, locals and result of each

vars == <<store, pending, subscribed, tasks>>

----------------------------------------------------------------------------
\* String helpers of the language.

\* !v of JavaScript for the strings used here.
FalsyMissing(v) == FALSE
Falsy(v) == v = NULL \/ v = ""

\* String.prototype.toLowerCase on the e-mail alphabet of the model.
toLowerCase(s) ==
    CASE s = "A@x.com" -> "a@x.com"
      [] s = "B@x.com" -> "b@x.com"
      [] OTHER -> s

\* (email || '').toLowerCase()
LowerOrEmpty(email) == IF Falsy(email) THEN "" ELSE toLowerCase(email)

\* E-mails the host saves registration fields under.
PendingEmails == {"a@x.com"}
PendingKeys == {toLowerCase(e) : e \in PendingEmails}

----------------------------------------------------------------------------
\* The 'profiles' table: primary key id, conflict target of upsert.

RowsWithId(rows, id) == {i \in DOMAIN rows : rows[i].id = id}

HasRow(rows, id) == RowsWithId(rows, id) # {}

RowOf(rows, id) == rows[CHOOSE i \in RowsWithId(rows, id) : TRUE]

\* .select('*').eq('id', uid).maybeSingle(): null for no row, the row for one,
\* an error for several.
SelectMaybeSingle(rows, uid) ==
    LET n == Cardinality(RowsWithId(rows, uid))
    IN  IF n = 0 THEN [error |-> "none", data |-> NoRow]
        ELSE IF n = 1 THEN [error |-> "none", data |-> RowOf(rows, uid)]
        ELSE [error |-> "store", data |-> NoRow]

\* .insert([row]).select().single(): a row with the same id is a duplicate-key error.
InsertAppend(rows, row) ==
    [error |-> "none", rows |-> Append(rows, row), data |-> row]
InsertRow(rows, row) ==
    IF HasRow(rows, row.id)
    THEN [error |-> "duplicate", rows |-> rows, data |-> NoRow]
    ELSE [error |-> "none", rows |-> Append(rows, row), data |-> row]

\* .upsert(row, { onConflict: 'id' }).select().single(): one atomic statement that
\* inserts, or on a row with the same id sets every column of the payload.
UpsertAsInsert(rows, row) == InsertRow(rows, row)
UpsertAlwaysAppend(rows, row) == InsertAppend(rows, row)
UpsertRow(rows, row) ==
    IF HasRow(rows, row.id)
    THEN [error |-> "none",
          rows |-> [i \in DOMAIN rows |-> IF rows[i].id = row.id THEN row ELSE rows[i]],
          data |-> row]
    ELSE [error |-> "none", rows |-> Append(rows, row), data |-> row]

----------------------------------------------------------------------------
\* Task records.

IdleTask ==
    [flow |-> "none", pc |-> "idle", user |-> NoUser, args |-> NoRow,
     profile |-> NoRow, result |-> "none", error |-> "none", calls |-> 0,
     received |-> "none"]

NewTask(flow, user) == [IdleTask EXCEPT !.flow = flow, !.user = user]

\* if (error) on the { data, error } an await delivered; received is that error.
ErrorIgnored(error) == FALSE
IsError(error) == error # "none"

\* The error member of the provider's answer.
AuthError(resp) == IF resp.error THEN "auth" ELSE "none"

\* The store's answer to a request it rejects: no data, the table as it was.
Rejected(rows) == [error |-> "store", rows |-> rows, data |-> NoRow]

\* return from the flow: the call is over, its locals are gone.
Return(task, result, profile) ==
    [task EXCEPT !.pc = "done", !.args = NoRow, !.result = result, !.profile = profile]

\* throw err: the listener's try/catch logs it, every other flow rejects.
ThrowUncaught(task, err) ==
    [task EXCEPT !.pc = "done", !.args = NoRow, !.profile = NoRow, !.error = err,
                 !.result = "error"]
ThrowSwallowed(task, err) ==
    [task EXCEPT !.pc = "done", !.args = NoRow, !.profile = NoRow, !.result = "ok"]
Throw(task, err) ==
    [task EXCEPT !.pc = "done", !.args = NoRow, !.profile = NoRow, !.error = err,
                 !.result = IF task.flow = "listener" THEN "caught" ELSE "error"]

\* createOrUpdateProfile up to its await: the uid check and the profile object.
ProfileObjectMinimal(uid, email, nome, data_nascimento) ==
    [id |-> uid, email |-> email, nome |-> NULL,
     data_nascimento |-> NULL, role |-> "user"]
ProfileObject(uid, email, nome, data_nascimento) ==
    [id |-> uid, email |-> email, nome |-> nome,
     data_nascimento |-> data_nascimento, role |-> "user"]

CallCreateOrUpdateProfile(task, uid, email, nome, data_nascimento) ==
    IF Falsy(uid)
    THEN Throw(task, "validation")
    ELSE [task EXCEPT !.pc = "upsert",
                      !.args = ProfileObject(uid, email, nome, data_nascimento),
                      !.calls = @ + 1]

\* if (!profile) of signIn and of the listener.
AlwaysCreate(profile) == TRUE
NeverCreate(profile) == FALSE
NeedsCreate(profile) == profile = NoRow

\* The fields the read-first flows pass when no profile was found.
FieldsFromAnyPending(user) ==
    LET k == CHOOSE k \in PendingKeys : TRUE
    IN  [email |-> user.email, nome |-> pending[k].nome,
         data_nascimento |-> pending[k].data_nascimento]
MinimalFields(user) ==
    [email |-> user.email, nome |-> NULL, data_nascimento |-> NULL]

\* What follows `profile = await getProfile(user.id)` in signIn and in the listener.
AfterGetProfile(task, profile) ==
    IF NeedsCreate(profile)
    THEN LET f == MinimalFields(task.user)
         IN  CallCreateOrUpdateProfile(task, task.user.id, f.email, f.nome, f.data_nascimento)
    ELSE Return(task, "ok", profile)

\* getProfile up to its await: a falsy uid returns null without a store call.
CallGetProfile(task, uid) ==
    IF Falsy(uid)
    THEN AfterGetProfile(task, NoRow)
    ELSE [task EXCEPT !.pc = "getProfile", !.calls = @ + 1]

----------------------------------------------------------------------------
Init ==
    /\ store = << >>
    /\ pending = [k \in PendingKeys |-> NoPending]
    /\ subscribed = FALSE
    /\ tasks = [t \in Tasks |-> IdleTask]

\* Calls start in order: task t is the t-th call of the behaviour.
CanStart(t) ==
    /\ tasks[t].pc = "idle"
    /\ \A u \in Tasks : u < t => tasks[u].pc # "idle"

SetTask(t, task) == tasks' = [tasks EXCEPT ![t] = task]

----------------------------------------------------------------------------
\* The flows, each up to its first await on the store.

\* if (user) of signUpAndCreateProfile, user being data?.user ?? null.
UserAssumed(user) == TRUE
UserReturned(user) == user # NoUser

\* signUpAndCreateProfile: auth.signUp answered by the provider, then either the
\* call of createOrUpdateProfile or { needsConfirm: true }.
signUpAndCreateProfile(t, email, f, resp) ==
    /\ CanStart(t)
    /\ LET task == [NewTask("signUp", resp.user) EXCEPT !.received = AuthError(resp)]
       IN  SetTask(t,
               IF IsError(task.received) THEN Throw(task, "auth")
               ELSE IF UserReturned(resp.user)
                    THEN CallCreateOrUpdateProfile(task, resp.user.id, email,
                                                   f.nome, f.data_nascimento)
                    ELSE Return(task, "needsConfirm", NoRow))
    /\ UNCHANGED <<store, pending, subscribed>>

\* signIn: auth.signInWithPassword answered by the provider, then the call of
\* getProfile or { needsAction: true }.
signIn(t, resp) ==
    /\ CanStart(t)
    /\ LET task == [NewTask("signIn", resp.user) EXCEPT !.received = AuthError(resp)]
       IN  SetTask(t,
               IF IsError(task.received) THEN Throw(task, "auth")
               ELSE IF resp.user = NoUser THEN Return(task, "needsAction", NoRow)
               ELSE CallGetProfile(task, resp.user.id))
    /\ UNCHANGED <<store, pending, subscribed>>

\* initAuthListener: registers the handler and returns the subscription.
initAuthListener ==
    /\ ~subscribed
    /\ subscribed' = TRUE
    /\ UNCHANGED <<store, pending, tasks>>

\* subscription.unsubscribe() by the host.
unsubscribe ==
    /\ subscribed
    /\ subscribed' = FALSE
    /\ UNCHANGED <<store, pending, tasks>>

\* session?.user
SessionUser(session) == IF session.present THEN session.user ELSE NoUser

\* if (session?.user) of the handler.
ListenerActsAlways(user) == TRUE
ListenerActs(user) == user # NoUser

\* The handler of onAuthStateChange invoked with (event, session).
onAuthStateChange(t, session) ==
    /\ subscribed
    /\ CanStart(t)
    /\ LET user == SessionUser(session)
           task == NewTask("listener", user)
       IN  SetTask(t,
               IF ListenerActs(user) THEN CallGetProfile(task, user.id)
               ELSE Return(task, "noop", NoRow))
    /\ UNCHANGED <<store, pending, subscribed>>

\* A direct call of the exported createOrUpdateProfile(uid, { email, nome, data_nascimento }).
createOrUpdateProfile(t, uid, email, f) ==
    /\ CanStart(t)
    /\ SetTask(t, CallCreateOrUpdateProfile(NewTask("createOrUpdateProfile", NoUser),
                                            uid, email, f.nome, f.data_nascimento))
    /\ UNCHANGED <<store, pending, subscribed>>

\* upsertProfileById(supabase, { id, email, nome, data_nascimento, role }) up to its await.
upsertProfileById(t, client, in) ==
    /\ CanStart(t)
    /\ LET task == NewTask("upsertProfileById", NoUser)
       IN  SetTask(t,
               IF ~client THEN Throw(task, "validation")
               ELSE IF Falsy(in.id) THEN Throw(task, "validation")
               ELSE [task EXCEPT !.pc = "upsert", !.calls = @ + 1,
                                 !.args = [id |-> in.id, email |-> LowerOrEmpty(in.email),
                                           nome |-> in.nome,
                                           data_nascimento |-> in.data_nascimento,
                                           role |-> in.role]])
    /\ UNCHANGED <<store, pending, subscribed>>

\* insertProfileManual(supabase, { id, email, nome, data_nascimento, role }) up to its await.
insertProfileManual(t, client, in) ==
    /\ CanStart(t)
    /\ LET task == NewTask("insertProfileManual", NoUser)
       IN  SetTask(t,
               IF ~client THEN Throw(task, "validation")
               ELSE IF Falsy(in.id) THEN Throw(task, "validation")
               ELSE IF Falsy(in.email) THEN Throw(task, "validation")
               ELSE [task EXCEPT !.pc = "insert", !.calls = @ + 1,
                                 !.args = [id |-> in.id, email |-> LowerOrEmpty(in.email),
                                           nome |-> in.nome,
                                           data_nascimento |-> in.data_nascimento,
                                           role |-> in.role]])
    /\ UNCHANGED <<store, pending, subscribed>>

----------------------------------------------------------------------------
\* The store answers.  ok = FALSE is a rejection by the store (policy,
\* connectivity): { data: null, error }.

\* getProfile resumes: throw on error, else the row or null goes back to the flow.
getProfileResponse(t, ok) ==
    /\ tasks[t].pc = "getProfile"
    /\ LET r == IF ok THEN SelectMaybeSingle(store, tasks[t].user.id) ELSE Rejected(store)
           task == [tasks[t] EXCEPT !.received = r.error]
       IN  SetTask(t,
               IF IsError(r.error) THEN Throw(task, "store")
               ELSE AfterGetProfile(task, r.data))
    /\ UNCHANGED <<store, pending, subscribed>>

\* createOrUpdateProfile / upsertProfileById resume after the upsert.
upsertResponse(t, ok) ==
    /\ tasks[t].pc = "upsert"
    /\ LET r == IF ok THEN UpsertRow(store, tasks[t].args) ELSE Rejected(store)
           task == [tasks[t] EXCEPT !.received = r.error]
       IN  /\ store' = r.rows
           /\ SetTask(t, IF IsError(r.error) THEN Throw(task, r.error)
                         ELSE Return(task, "ok", r.data))
    /\ UNCHANGED <<pending, subscribed>>

\* insertProfileManual resumes after the insert.
insertResponse(t, ok) ==
    /\ tasks[t].pc = "insert"
    /\ LET r == IF ok THEN InsertRow(store, tasks[t].args) ELSE Rejected(store)
           task == [tasks[t] EXCEPT !.received = r.error]
       IN  /\ store' = r.rows
           /\ SetTask(t, IF IsError(r.error) THEN Throw(task, r.error)
                         ELSE Return(task, "ok", r.data))
    /\ UNCHANGED <<pending, subscribed>>

----------------------------------------------------------------------------
\* Pending-Registration Cache: save(email, fields) stores the fields under the
\* lower-cased e-mail, overwriting.
pendingSave(email, f) ==
    /\ f.nome # NULL
    /\ pending' = [pending EXCEPT ![toLowerCase(email)] =
                       [email |-> email, nome |-> f.nome,
                        data_nascimento |-> f.data_nascimento]]
    /\ UNCHANGED <<store, subscribed, tasks>>

----------------------------------------------------------------------------
\* Arguments of the direct calls.
DirectIds == {"u1", ""}

\* Argument objects of insertProfileManual / upsertProfileById.
ManualRows ==
    {[id |-> "u1", email |-> "A@x.com", nome |-> "Ana",
      data_nascimento |-> "2000-01-01", role |-> "admin"],
     [id |-> "u1", email |-> NULL, nome |-> NULL, data_nascimento |-> NULL, role |-> "user"],
     [id |-> "", email |-> "a@x.com", nome |-> NULL, data_nascimento |-> NULL, role |-> "user"]}

\* The provider signs up the e-mail it was given.
SignUpResponses(email) ==
    {r \in AuthResponses :
        r.user # NoUser => toLowerCase(r.user.email) = toLowerCase(email)}

Next ==
    \/ \E t \in Tasks, e \in Emails, f \in FieldChoices :
           \E resp \in SignUpResponses(e) : signUpAndCreateProfile(t, e, f, resp)
    \/ \E t \in Tasks, resp \in AuthResponses : signIn(t, resp)
    \/ initAuthListener
    \/ unsubscribe
    \/ \E t \in Tasks, session \in Sessions : onAuthStateChange(t, session)
    \/ \E t \in Tasks, uid \in DirectIds, e \in Emails, f \in FieldChoices :
           createOrUpdateProfile(t, uid, e, f)
    \/ \E t \in Tasks, client \in BOOLEAN, in \in ManualRows :
           upsertProfileById(t, client, in)
    \/ \E t \in Tasks, client \in BOOLEAN, in \in ManualRows :
           insertProfileManual(t, client, in)
    \/ \E t \in Tasks, ok \in BOOLEAN : getProfileResponse(t, ok)
    \/ \E t \in Tasks, ok \in BOOLEAN : upsertResponse(t, ok)
    \/ \E t \in Tasks, ok \in BOOLEAN : insertResponse(t, ok)
    \/ \E e \in PendingEmails, f \in FieldChoices : pendingSave(e, f)

Spec == Init /\ [][Next]_vars

\* The reconciliation flows alone: Signup, SignIn, the listener and its
\* subscription, direct createOrUpdateProfile calls, and the store's answers.
ReconcileNext ==
    \/ \E t \in Tasks, e \in Emails, f \in FieldChoices :
           \E resp \in SignUpResponses(e) : signUpAndCreateProfile(t, e, f, resp)
    \/ \E t \in Tasks, resp \in AuthResponses : signIn(t, resp)
    \/ initAuthListener
    \/ unsubscribe
    \/ \E t \in Tasks, session \in Sessions : onAuthStateChange(t, session)
    \/ \E t \in Tasks, uid \in DirectIds, e \in Emails, f \in FieldChoices :
           createOrUpdateProfile(t, uid, e, f)
    \/ \E t \in Tasks, ok \in BOOLEAN : getProfileResponse(t, ok)
    \/ \E t \in Tasks, ok \in BOOLEAN : upsertResponse(t, ok)

\* The store answers every request: an await on the store client always resumes.
StoreAnswers(t) ==
    \E ok \in BOOLEAN : getProfileResponse(t, ok) \/ upsertResponse(t, ok)

FairSpec == Init /\ [][ReconcileNext]_vars /\ \A t \in Tasks : WF_vars(StoreAnswers(t))

----------------------------------------------------------------------------
\* Properties.

\* Task t takes the step.
Stepped(t) == tasks'[t] # tasks[t]

Reconcilers == {"signUp", "signIn", "listener"}

\* Task t is a reconciliation that completed successfully for tasks[t].user.
Reconciled(t) ==
    /\ tasks[t].pc = "done"
    /\ tasks[t].flow \in Reconcilers
    /\ tasks[t].result = "ok"

\* C1: no two rows of the store share an id, and every identity a Signup, a
\* SignIn or a listener event reconciled successfully has exactly one row.
C1_ExactlyOneProfile ==
    /\ \A i, j \in DOMAIN store : store[i].id = store[j].id => i = j
    /\ \A t \in Tasks :
           Reconciled(t) => Cardinality(RowsWithId(store, tasks[t].user.id)) = 1

\* Two reconciliations of the same identity have completed, one of them a write.
C1_Witness ==
    \E t, u \in Tasks :
        /\ t # u /\ Reconciled(t) /\ Reconciled(u)
        /\ tasks[t].user = tasks[u].user
        /\ tasks[t].flow = "signUp" /\ tasks[u].flow = "signIn"
        /\ Len(store) = 1

\* C2: reconciliations of one identity racing each other (listener against
\* SignIn or Signup) leave a single row for the id, and none of them is
\* answered with a duplicate-key failure.
C2_ConcurrentSingleRow ==
    \A t, u \in Tasks :
        (/\ t # u
         /\ tasks[t].flow \in Reconcilers /\ tasks[u].flow \in Reconcilers
         /\ tasks[t].user # NoUser /\ tasks[t].user.id = tasks[u].user.id)
        => /\ Cardinality(RowsWithId(store, tasks[t].user.id)) <= 1
           /\ tasks[t].error # "duplicate"
           /\ tasks[u].error # "duplicate"

\* The listener and a SignIn both read "absent" and both wrote: each issued a
\* read and an upsert, so both reads came before either write.
C2_Witness ==
    \E t, u \in Tasks :
        /\ tasks[t].flow = "listener" /\ tasks[u].flow = "signIn"
        /\ Reconciled(t) /\ Reconciled(u)
        /\ tasks[t].user.id = tasks[u].user.id
        /\ tasks[t].calls = 2 /\ tasks[u].calls = 2
        /\ Cardinality(RowsWithId(store, tasks[t].user.id)) = 1

\* Task t is on the minimal path: a listener or SignIn about to write the
\* profile it built without registration fields.
MinimalWrite(t) ==
    /\ tasks[t].flow \in {"signIn", "listener"}
    /\ tasks[t].pc = "upsert"
    /\ Stepped(t)

\* C3: a minimal-path createOrUpdate never sets a populated nome or
\* data_nascimento of the stored profile back to null.
C3_NoRegression ==
    [][\A t \in Tasks :
          (MinimalWrite(t) /\ HasRow(store, tasks[t].args.id))
          => LET old == RowOf(store, tasks[t].args.id)
                 new == RowOf(store', tasks[t].args.id)
             IN  /\ old.nome # NULL => new.nome # NULL
                 /\ old.data_nascimento # NULL => new.data_nascimento # NULL]_vars

\* SignIn task t receives the answer of getProfile while a profile exists.
SignInReadsExisting(t) ==
    /\ tasks[t].flow = "signIn"
    /\ tasks[t].pc = "getProfile"
    /\ HasRow(store, tasks[t].user.id)
    /\ Stepped(t)

\* C4: a SignIn that finds a profile for the identity returns that profile and
\* writes nothing: every field of the stored row is as before.
C4_ReadFirstSignIn ==
    [][\A t \in Tasks :
          SignInReadsExisting(t)
          => /\ store' = store
             /\ tasks'[t].pc = "done"
             /\ \/ tasks'[t].error = "store"
                \/ /\ tasks'[t].result = "ok"
                   /\ tasks'[t].profile = RowOf(store, tasks[t].user.id)]_vars

\* A SignIn returned, after its single read, a stored row that carries
\* the marker role "admin".
C4_Witness ==
    \E t \in Tasks :
        /\ tasks[t].flow = "signIn" /\ Reconciled(t)
        /\ tasks[t].calls = 1
        /\ tasks[t].profile.role = "admin"
        /\ store = <<tasks[t].profile>>

\* C5: a SignIn that completes successfully for an identity returns a profile
\* that is the stored row with the identity's id.
C5_SignInYieldsProfile ==
    [][\A t \in Tasks :
          (/\ Stepped(t)
           /\ tasks'[t].flow = "signIn"
           /\ tasks'[t].pc = "done"
           /\ tasks'[t].result = "ok")
          => /\ HasRow(store', tasks'[t].user.id)
             /\ tasks'[t].profile = RowOf(store', tasks'[t].user.id)
             /\ tasks'[t].profile.id = tasks'[t].user.id]_vars

\* A SignIn found no profile, created it and returned it.
C5_Witness ==
    \E t \in Tasks :
        /\ tasks[t].flow = "signIn" /\ Reconciled(t)
        /\ tasks[t].calls = 2
        /\ store = <<tasks[t].profile>>
        /\ tasks[t].profile.id = tasks[t].user.id

\* Task t completes createOrUpdateProfile with the inputs an earlier call u
\* completed with, the store being as u's write left the row.
SecondIdenticalCall(t) ==
    /\ tasks[t].flow = "createOrUpdateProfile"
    /\ tasks[t].pc = "upsert"
    /\ Stepped(t)
    /\ tasks'[t].result = "ok"
    /\ \E u \in Tasks :
           /\ u # t
           /\ tasks[u].flow = "createOrUpdateProfile"
           /\ tasks[u].pc = "done" /\ tasks[u].result = "ok"
           /\ tasks[u].profile = tasks[t].args
    /\ HasRow(store, tasks[t].args.id)
    /\ RowOf(store, tasks[t].args.id) = tasks[t].args

\* C6: createOrUpdate invoked a second time with the same id and fields leaves
\* the store exactly as the first invocation left it, without a second row.
C6_Idempotent ==
    [][\A t \in Tasks :
          SecondIdenticalCall(t)
          => /\ store' = store
             /\ Cardinality(RowsWithId(store', tasks[t].args.id)) = 1
             /\ tasks'[t].profile = tasks[t].args]_vars

\* Two direct calls with identical inputs both completed.
C6_Witness ==
    \E t, u \in Tasks :
        /\ t # u
        /\ tasks[t].flow = "createOrUpdateProfile"
        /\ tasks[u].flow = "createOrUpdateProfile"
        /\ tasks[t].pc = "done" /\ tasks[t].result = "ok"
        /\ tasks[u].pc = "done" /\ tasks[u].result = "ok"
        /\ tasks[t].profile = tasks[u].profile
        /\ tasks[t].profile.nome = "Ana"
        /\ store = <<tasks[t].profile>>

MissingId(id) == id \in {"", NULL}

\* C7: create-or-update with an empty or missing id fails with a validation
\* error before any store call: no upsert is ever issued or completed for
\* such an id, the store holds no such row, and a call that failed validation
\* issued no store call.
C7_MissingIdRejected ==
    /\ \A t \in Tasks :
           /\ tasks[t].pc = "upsert" => ~MissingId(tasks[t].args.id)
           /\ (tasks[t].flow \in {"createOrUpdateProfile", "upsertProfileById"}
                 /\ tasks[t].result = "ok") => ~MissingId(tasks[t].profile.id)
           /\ tasks[t].error = "validation"
                 => tasks[t].calls = 0 /\ tasks[t].pc = "done"
                        /\ tasks[t].result \in {"error", "caught"}
    /\ \A i \in DOMAIN store : ~MissingId(store[i].id)

\* Both adapters were called with an empty id and failed validation; the store is still empty.
C7_Witness ==
    \E t, u \in Tasks :
        /\ tasks[t].flow = "createOrUpdateProfile" /\ tasks[t].error = "validation"
        /\ tasks[u].flow = "upsertProfileById" /\ tasks[u].error = "validation"
        /\ tasks[t].calls = 0 /\ tasks[u].calls = 0
        /\ store = << >>

\* The cache key of the listener's user, when the cache holds an entry for it.
PendingFor(user) ==
    IF toLowerCase(user.email) \in PendingKeys
    THEN pending[toLowerCase(user.email)]
    ELSE NoPending

\* Listener task t completes its handler without an error.
ListenerCompletes(t) ==
    /\ tasks[t].flow = "listener"
    /\ Stepped(t)
    /\ tasks'[t].pc = "done"
    /\ tasks'[t].result = "ok"

\* C8: when the cache holds registration fields under the e-mail of the
\* identity a listener transition delivers, the profile the listener leaves
\* carries the cached nome and data_nascimento and the cache entry is gone.
C8_PendingMerged ==
    [][\A t \in Tasks :
          (ListenerCompletes(t) /\ PendingFor(tasks[t].user) # NoPending)
          => LET p == PendingFor(tasks[t].user)
                 row == RowOf(store', tasks[t].user.id)
             IN  /\ row.nome = p.nome
                 /\ row.data_nascimento = p.data_nascimento
                 /\ pending'[toLowerCase(tasks[t].user.email)] = NoPending]_vars

\* Listener task t takes a step while the cache holds an entry under key k,
\* which is not the e-mail of t's user.
ListenerStepsBesides(t, k) ==
    /\ Stepped(t)
    /\ tasks'[t].flow = "listener"
    /\ tasks'[t].user # NoUser
    /\ pending[k] # NoPending
    /\ toLowerCase(tasks'[t].user.email) # k

\* C9: a listener transition for an identity whose e-mail differs from the
\* e-mail of a cached pending record neither writes the cached nome into the
\* profile nor removes the cache entry.
C9_MismatchGuard ==
    [][\A t \in Tasks, k \in PendingKeys :
          ListenerStepsBesides(t, k)
          => /\ pending'[k] = pending[k]
             /\ tasks'[t].pc = "upsert" => tasks'[t].args.nome # pending[k].nome
             /\ store' # store
                   => RowOf(store', tasks[t].user.id).nome # pending[k].nome]_vars

\* The listener created the profile of u2 (b@x.com) while the cache holds the
\* record saved under a@x.com.
C9_Witness ==
    \E t \in Tasks :
        /\ tasks[t].flow = "listener" /\ Reconciled(t)
        /\ tasks[t].calls = 2
        /\ tasks[t].user.email = "b@x.com"
        /\ pending["a@x.com"].nome = "Ana"
        /\ HasRow(store, tasks[t].user.id)
        /\ RowOf(store, tasks[t].user.id).nome = NULL

\* C10: a Signup whose signUp returned no identity (and no error) returns
\* needsConfirm having issued no store call, and leaves the store unchanged.
C10_NeedsConfirmNoStore ==
    [][\A t \in Tasks :
          (/\ Stepped(t)
           /\ tasks'[t].flow = "signUp"
           /\ tasks'[t].user = NoUser
           /\ tasks'[t].error # "auth")
          => /\ tasks'[t].pc = "done"
             /\ tasks'[t].result = "needsConfirm"
             /\ tasks'[t].calls = 0
             /\ store' = store]_vars

\* A Signup returned needsConfirm after another call had created a profile.
C10_Witness ==
    \E t \in Tasks :
        /\ tasks[t].flow = "signUp"
        /\ tasks[t].pc = "done" /\ tasks[t].result = "needsConfirm"
        /\ tasks[t].calls = 0
        /\ Len(store) = 1

\* A Signup has ended in needsConfirm and listener task t is handling a session
\* that carries a user.
DeferredReconciliation(t) ==
    /\ tasks[t].flow = "listener"
    /\ tasks[t].pc \in {"getProfile", "upsert"}
    /\ \E u \in Tasks :
           /\ tasks[u].flow = "signUp"
           /\ tasks[u].pc = "done" /\ tasks[u].result = "needsConfirm"

\* C11: after a Signup that ended in needsConfirm, a listener event carrying
\* the identity leads to a profile row for its id, unless the store rejected a
\* request of the handler.
C11_DeferredCompletes ==
    \A t \in Tasks :
        DeferredReconciliation(t)
            ~> (HasRow(store, tasks[t].user.id) \/ tasks[t].received = "store")

\* After a needsConfirm Signup the listener found no profile and created it.
C11_Witness ==
    \E t, u \in Tasks :
        /\ tasks[u].flow = "signUp" /\ tasks[u].result = "needsConfirm"
        /\ tasks[t].flow = "listener" /\ Reconciled(t)
        /\ tasks[t].calls = 2
        /\ subscribed
        /\ store = <<tasks[t].profile>>

\* C12: when the provider rejects the authentication, SignIn fails with the
\* provider's error having issued no store call, and the store is unchanged.
C12_AuthErrorNoStore ==
    [][\A t \in Tasks :
          (/\ Stepped(t)
           /\ tasks'[t].flow = "signIn"
           /\ tasks'[t].received = "auth")
          => /\ tasks'[t].pc = "done"
             /\ tasks'[t].result = "error"
             /\ tasks'[t].error = "auth"
             /\ tasks'[t].calls = 0
             /\ store' = store]_vars

\* A SignIn was rejected by the provider while the store holds a profile.
C12_Witness ==
    \E t \in Tasks :
        /\ tasks[t].flow = "signIn"
        /\ tasks[t].pc = "done" /\ tasks[t].error = "auth"
        /\ tasks[t].calls = 0
        /\ Len(store) = 1

\* C13: a failure inside the listener handler is caught: the handler ends
\* without rejecting, whatever error an await delivered, and the subscription
\* stays registered for the events that follow.
C13_ListenerResilient ==
    [][\A t \in Tasks :
          (Stepped(t) /\ tasks'[t].flow = "listener")
          => /\ tasks'[t].result # "error"
             /\ tasks'[t].received # "none"
                   => /\ tasks'[t].pc = "done"
                      /\ tasks'[t].result = "caught"
                      /\ tasks'[t].error = tasks'[t].received
             /\ tasks'[t].error # "none" => tasks'[t].result = "caught"
             /\ subscribed' = subscribed]_vars

\* A handler failed on a store rejection and the handler of a later event
\* completed.
C13_Witness ==
    \E t, u \in Tasks :
        /\ t < u
        /\ tasks[t].flow = "listener" /\ tasks[t].result = "caught"
        /\ tasks[t].error = "store"
        /\ tasks[u].flow = "listener" /\ Reconciled(u)
        /\ subscribed

\* Signup or SignIn task t receives the store's rejection of its read or write.
StoreRejects(t) ==
    /\ tasks[t].flow \in {"signUp", "signIn"}
    /\ tasks[t].pc \in {"getProfile", "upsert"}
    /\ Stepped(t)
    /\ tasks'[t].received = "store"

\* C14: when the store rejects the read or the createOrUpdate of a Signup or
\* SignIn, the call fails with the store's error, returns no profile, and the
\* store is as before the rejected request.
C14_StoreErrorPropagates ==
    [][\A t \in Tasks :
          StoreRejects(t)
          => /\ tasks'[t].pc = "done"
             /\ tasks'[t].result = "error"
             /\ tasks'[t].error = "store"
             /\ tasks'[t].profile = NoRow
             /\ store' = store]_vars

\* A SignIn read "absent", its write was rejected, the store is still empty;
\* and a Signup's write was rejected.
C14_Witness ==
    \E t, u \in Tasks :
        /\ tasks[t].flow = "signIn" /\ tasks[t].calls = 2
        /\ tasks[t].result = "error" /\ tasks[t].error = "store"
        /\ tasks[u].flow = "signUp" /\ tasks[u].calls = 1
        /\ tasks[u].result = "error" /\ tasks[u].error = "store"
        /\ store = << >>

\* C15: no stored profile has a role other than "user": the subsystem creates
\* profiles with role "user" and never sets another role.
C15_RoleNeverEscalated ==
    \A i \in DOMAIN store : store[i].role = "user"

\* C16: the e-mail of every stored profile is in lower case.
C16_EmailLowerCased ==
    \A i \in DOMAIN store : store[i].email = toLowerCase(store[i].email)

\* Signup task t receives the store's acceptance of its createOrUpdate.
SignUpWrites(t) ==
    /\ tasks[t].flow = "signUp"
    /\ tasks[t].pc = "upsert"
    /\ Stepped(t)
    /\ tasks'[t].received = "none"

\* The Signup call with these arguments, answered with this identity, issues
\* the createOrUpdate for the identity's id with the fields supplied.
SignUpIssues(t, email, f, user) ==
    /\ signUpAndCreateProfile(t, email, f, [error |-> FALSE, user |-> user])
    /\ tasks'[t].pc = "upsert"
    /\ tasks'[t].args.id = user.id
    /\ tasks'[t].args.email = email
    /\ tasks'[t].args.nome = f.nome
    /\ tasks'[t].args.data_nascimento = f.data_nascimento

\* C17: when signUp returns an identity, Signup issues a createOrUpdate for
\* identity.id carrying the supplied nome and data_nascimento, and once the
\* store accepted it the stored row has those fields and Signup returns the
\* identity with the stored row as profile.
C17_DirectSignupPath ==
    [][/\ \A t \in Tasks, e \in Emails, f \in FieldChoices, user \in Identities :
             (CanStart(t) /\ toLowerCase(user.email) = toLowerCase(e))
             => ENABLED SignUpIssues(t, e, f, user)
       /\ \A t \in Tasks :
             SignUpWrites(t)
             => /\ Cardinality(RowsWithId(store', tasks[t].user.id)) = 1
                /\ RowOf(store', tasks[t].user.id) = tasks[t].args
                /\ tasks'[t].pc = "done" /\ tasks'[t].result = "ok"
                /\ tasks'[t].user = tasks[t].user
                /\ tasks'[t].profile = RowOf(store', tasks[t].user.id)]_vars

\* A Signup with nome "Ana" returned the identity and the stored row.
C17_Witness ==
    \E t \in Tasks :
        /\ tasks[t].flow = "signUp" /\ Reconciled(t)
        /\ tasks[t].profile.nome = "Ana"
        /\ tasks[t].profile.data_nascimento = "2000-01-01"
        /\ tasks[t].profile.id = tasks[t].user.id
        /\ store = <<tasks[t].profile>>

\* The store operations the handler of a listener task has issued so far, in
\* order: getProfile always, createOrUpdateProfile when it found no profile.
ListenerStoreCalls(task) ==
    IF task.calls = 0 THEN << >>
    ELSE IF task.calls = 1 THEN <<"getProfile">>
    ELSE <<"getProfile", "createOrUpdate">>

\* C18: the handler of a listener event that carries a user issues a
\* createOrUpdate for the user and after it an updateLastActive.
C18_ReconcileThenLastActive ==
    \A t \in Tasks :
        (/\ tasks[t].flow = "listener"
         /\ tasks[t].user # NoUser
         /\ tasks[t].pc = "done" /\ tasks[t].result = "ok")
        => LET ops == ListenerStoreCalls(tasks[t])
           IN  \E i, j \in DOMAIN ops :
                   /\ i < j
                   /\ ops[i] = "createOrUpdate"
                   /\ ops[j] = "updateLastActive"

\* Listener task t starts for a session that is null or carries no user.
SessionlessEvent(t) ==
    /\ Stepped(t)
    /\ tasks'[t].flow = "listener"
    /\ tasks'[t].user = NoUser

\* C19: a listener event without a session user triggers nothing: the handler
\* ends at once having issued no store call, and the store is unchanged.
C19_SessionlessNoAction ==
    [][\A t \in Tasks :
          SessionlessEvent(t)
          => /\ tasks'[t].pc = "done"
             /\ tasks'[t].result = "noop"
             /\ tasks'[t].error = "none"
             /\ tasks'[t].calls = 0
             /\ store' = store]_vars

\* A session-less event was handled while the store holds a profile.
C19_Witness ==
    \E t \in Tasks :
        /\ tasks[t].flow = "listener"
        /\ tasks[t].pc = "done" /\ tasks[t].result = "noop"
        /\ tasks[t].calls = 0
        /\ Len(store) = 1

\* The insertProfileManual call with these arguments fails validation before
\* any store call.
InsertFailsValidation(t, client, in) ==
    /\ insertProfileManual(t, client, in)
    /\ tasks'[t].pc = "done"
    /\ tasks'[t].result = "error"
    /\ tasks'[t].error = "validation"
    /\ tasks'[t].calls = 0
    /\ store' = store

\* insertProfileManual task t receives the store's answer while a row with the
\* id it inserts exists.
InsertOnExisting(t) ==
    /\ tasks[t].flow = "insertProfileManual"
    /\ tasks[t].pc = "insert"
    /\ Stepped(t)
    /\ HasRow(store, tasks[t].args.id)

\* C20: insertProfileManual fails before any store call when the client, the
\* id or the e-mail is missing; on an id that already has a row the call
\* fails with the store's rejection and the table is unchanged.
C20_InsertIsPlainInsert ==
    [][/\ \A t \in Tasks, client \in BOOLEAN, in \in ManualRows :
             (CanStart(t) /\ (~client \/ MissingId(in.id) \/ in.email \in {"", NULL}))
             => ENABLED InsertFailsValidation(t, client, in)
       /\ \A t \in Tasks :
             InsertOnExisting(t)
             => /\ store' = store
                /\ tasks'[t].pc = "done"
                /\ tasks'[t].result = "error"
                /\ tasks'[t].error \in {"duplicate", "store"}
                /\ tasks'[t].profile = NoRow]_vars

\* An insert with role "admin" met the row a Signup had written: it failed on
\* the duplicate key and the row is the Signup's.
C20_Witness ==
    \E t, u \in Tasks :
        /\ tasks[t].flow = "insertProfileManual"
        /\ tasks[t].pc = "done" /\ tasks[t].error = "duplicate"
        /\ tasks[u].flow = "signUp" /\ Reconciled(u)
        /\ store = <<tasks[u].profile>>

====
